---- MODULE Spec2Model ----
(***************************************************************************)
(* bufout: spawn child processes with prefixed, buffered output.           *)
(*                                                                         *)
(*   MultiBufferedTransform.ts  one arrival-ordered buffer over N inputs   *)
(*   PrefixingTransform.ts      a prefix before every line of a stream     *)
(*   spawn.ts                   the child's lifecycle, outcome and kill    *)
(*                                                                         *)
(* SpecMBT drives createMultiBufferedTransform on its own; Spec drives     *)
(* spawn() with one child; SpecFair is Spec with the fairness of the       *)
(* child's exit notification.                                              *)
(***************************************************************************)
EXTENDS Integers, Sequences, FiniteSets, TLC

\* ------------------------------------------------------------------ bounds
\* Chunks that arrive at the transform in one run of SpecMBT.
MaxChunks == 3
\* Chunks of child output that arrive in one run of Spec.
MaxOutput == 2
\* Input streams given to createMultiBufferedTransform in SpecMBT.
NumInputs == 2
\* flush / clear / destroy calls in one run of SpecMBT.
MaxCalls == 2
\* kill() calls in one run of Spec.
MaxKills == 1
\* Chunks written to the prefixing transform in one run of SpecPrefix.
MaxWrites == 3
\* Chunks of child output that arrive in one run of SpecOutput.
MaxPiped == 3
\* Launches pending at the same time in one run of SpecLaunches.
NumLaunches == 2

\* ------------------------------------------------------------------ values
Undefined == "undefined"
Null == "null"
\* exit code of a child that was terminated by a signal (code: number | null)
NoCode == -1
NL == "\n"

\* Chunk payloads: text without a line end, and text ending a line.
Payloads == { <<"a">>, <<"b", NL>> }
\* The payload of the chunks written to the transform when it is driven alone.
MbtPayloads == { <<"a">> }

\* Stream objects, by name.
InputNames == <<"in1", "in2", "in3", "in4">>
ProcessStdout == "process.stdout"
ChildStdout == "child.stdout"
ChildStderr == "child.stderr"

VARIABLES
  \* createMultiBufferedTransform
  inputs,      \* the input streams, in registration order
  endOpt,      \* the `end` option
  buffer,      \* the shared buffer: [chunk, transform] in push order
  outState,    \* per output transform: "open", "ended", "destroyed", "errored"
  inputEnded,  \* per input: has signalled end-of-data
  pushed,      \* every transform.push(chunk) that emitted: [chunk, transform]
  \* spawn
  launch,      \* the arguments of spawn(): command, args, outputMode, outputPrefix
  proc,        \* the child process: state, and the code and signal it exited with
  handle,      \* the child's handle is open (a kill reaches the process)
  needsPrefix, \* per channel, the prefixing transform's needsPrefix
  sink,        \* per channel, the text the configured sink has received
  hooks,       \* host listeners of this launch still registered
  listeners,   \* child listeners of this launch still registered
  outcome,     \* the promise: Running, Succeeded, Failed, Errored
  sent,        \* signals sent to the child: [signal, by]
  host,        \* the host process: alive
  \* several launches of one host
  children,    \* per launch: the child's state and handle, the launch's host
               \* listeners, its outcome, the signals sent to the child
  \* history
  arrived,     \* every chunk that arrived, in arrival order
  dropped,     \* ids of chunks a selective flush or a clear was to discard
  op,          \* the last operation: name, arg, raised
  hist         \* calls and kills so far; kill() was called on a running child
               \* with the outcome pending; flushOutput was called

mbtVars == <<inputs, endOpt, buffer, outState, inputEnded, pushed>>
spawnVars == <<launch, proc, handle, needsPrefix, sink, hooks, listeners,
               outcome, sent, host>>
histVars == <<arrived, dropped, op, hist>>
vars == <<mbtVars, spawnVars, histVars, children>>

\* ------------------------------------------------------------ sequences
RECURSIVE SeqMap(_, _)
\* s with Op applied to each element (a for..of over s)
SeqMap(Op(_), s) ==
  IF s = <<>> THEN <<>> ELSE <<Op(Head(s))>> \o SeqMap(Op, Tail(s))

RECURSIVE IsSubSeq(_, _)
\* s is t with some elements left out, order kept
IsSubSeq(s, t) ==
  IF s = <<>> THEN TRUE
  ELSE IF t = <<>> THEN FALSE
  ELSE IF Head(s) = Head(t) THEN IsSubSeq(Tail(s), Tail(t))
  ELSE IsSubSeq(s, Tail(t))

Range(s) == { s[i] : i \in DOMAIN s }

\* ------------------------------------------- MultiBufferedTransform.ts
\* A chunk as it arrives: its arrival number, the input it came from, its bytes.
Chunk(id, src, data) == [id |-> id, src |-> src, data |-> data]

\* inputPerOutput: the input stream each output transform was created for.
inputPerOutput == [t \in DOMAIN inputs |-> inputs[t]]

\* buffer.push([chunk, this])
BufferPushMut(buf, chunk, t) == <<[chunk |-> chunk, transform |-> t]>> \o buf
BufferPush(buf, chunk, t) == Append(buf, [chunk |-> chunk, transform |-> t])

\* transform.push(chunk) on output t: an open readable emits the chunk; an
\* ended one fails with push-after-EOF and is destroyed; a destroyed one
\* ignores the push.
PushChunkMut(acc, chunk, t) ==
  [acc EXCEPT !.pushed = Append(@, [chunk |-> chunk, transform |-> t])]
PushChunk(acc, chunk, t) ==
  IF acc.outState[t] = "open"
  THEN [acc EXCEPT !.pushed = Append(@, [chunk |-> chunk, transform |-> t])]
  ELSE IF acc.outState[t] = "ended"
  THEN [acc EXCEPT !.outState[t] = "errored"]
  ELSE acc

\* The test of the flush loop: skip the entry (continue)?
FlushSkipsMut(stream, e) ==
  stream \in Range(inputs) /\ inputPerOutput[e.transform] # stream
FlushSkips(stream, e) ==
  stream # Undefined /\ inputPerOutput[e.transform] # stream

RECURSIVE FlushLoop(_, _, _)
\* for (const [chunk, transform] of buffer.splice(0, buffer.length))
FlushLoop(entries, stream, acc) ==
  IF entries = <<>> THEN acc
  ELSE LET e == Head(entries) IN
       IF FlushSkips(stream, e)
       THEN FlushLoop(Tail(entries), stream, acc)
       ELSE FlushLoop(Tail(entries), stream, PushChunk(acc, e.chunk, e.transform))

\* What remains in the buffer after buffer.splice(0, buffer.length).
SpliceRestMut(buf) == buf
SpliceRest(buf) == <<>>

\* The write of output transform t: the chunk is buffered and nothing is emitted.
TransformWriteMut(acc, chunk, t) ==
  PushChunk([acc EXCEPT !.buffer = BufferPush(@, chunk, t)], chunk, t)
TransformWrite(acc, chunk, t) == [acc EXCEPT !.buffer = BufferPush(@, chunk, t)]

\* The transform's state, as the operations below take and return it.
Mbt == [buffer |-> buffer, outState |-> outState, pushed |-> pushed]

\* flush(stream): the state after it.
FlushResultMut(stream) ==
  LET acc == FlushLoop(buffer, stream, Mbt) IN
  [acc EXCEPT !.buffer = SelectSeq(buffer, LAMBDA e : FlushSkips(stream, e))]
FlushResult(stream) ==
  LET acc == FlushLoop(buffer, stream, Mbt) IN
  [acc EXCEPT !.buffer = SpliceRest(buffer)]

\* clear(): buffer.splice(0, buffer.length), the removed chunks unused.
ClearResultMut(buf) == IF buf = <<>> THEN buf ELSE <<Head(buf)>>
ClearResult(buf) == SpliceRest(buf)

\* destroy(): r.destroy() for every output.
DestroyResult(st) == [t \in DOMAIN st |-> "destroyed"]

\* { end = true }: the end option as given, or its default.
EndOptionMut(given, value) == IF given THEN value ELSE FALSE
EndOption(given, value) == IF given THEN value ELSE TRUE

\* input.pipe(transform, { end }): when the input ends, the output is ended
\* only under end = true (its writable side finishes and pushes EOF).
PipeEndMut(st, t) == IF st[t] = "open" THEN [st EXCEPT ![t] = "ended"] ELSE st
PipeEnd(st, t) ==
  IF endOpt /\ st[t] = "open" THEN [st EXCEPT ![t] = "ended"] ELSE st

\* ------------------------------------------------------------- history
NoOp == [name |-> "none", arg |-> Undefined, raised |-> ""]
Did(name, arg) == [name |-> name, arg |-> arg, raised |-> ""]
Hist0 == [calls |-> 0, kills |-> 0, killedRunning |-> FALSE, flushed |-> FALSE]

\* Ids of the buffered chunks that did not arrive on input `stream`.
OthersBuffered(stream) ==
  { buffer[i].chunk.id : i \in { j \in DOMAIN buffer : inputs[buffer[j].chunk.src] # stream } }
AllBuffered == { buffer[i].chunk.id : i \in DOMAIN buffer }

\* ------------------------------------ spawn state while no child is launched
NoLaunch == [command |-> "", args |-> <<>>, outputMode |-> "none",
             hasPrefix |-> FALSE, outputPrefix |-> <<>>]
NoProc == [state |-> "none", code |-> NoCode, signal |-> Null]
Pending == [state |-> "Running", code |-> NoCode, signal |-> Null,
            command |-> "", args |-> <<>>, cause |-> "", flush |-> "none",
            message |-> <<>>]

SpawnIdle ==
  /\ launch = NoLaunch
  /\ proc = NoProc
  /\ handle = FALSE
  /\ needsPrefix = <<>>
  /\ sink = <<>>
  /\ hooks = {}
  /\ listeners = {}
  /\ outcome = Pending
  /\ sent = <<>>
  /\ host = [alive |-> TRUE]

\* --------------------------------- createMultiBufferedTransform, driven alone
\* The selectors a caller can pass to flush: none, an input, another stream.
Selectors == Range(inputs) \cup {Undefined, ProcessStdout}

InitMBT ==
  /\ inputs = SubSeq(InputNames, 1, NumInputs)
  /\ endOpt \in { EndOption(given, value) : given, value \in BOOLEAN }
  /\ buffer = <<>>
  /\ outState = [t \in 1..NumInputs |-> "open"]
  /\ inputEnded = [t \in 1..NumInputs |-> FALSE]
  /\ pushed = <<>>
  /\ SpawnIdle
  /\ arrived = <<>>
  /\ dropped = {}
  /\ op = NoOp
  /\ hist = Hist0
  /\ children = <<>>

\* Input t emits a chunk and the pipe writes it to output transform t.
MbtWrite(t, data) ==
  /\ Len(arrived) < MaxChunks
  /\ ~inputEnded[t]
  /\ outState[t] = "open"
  /\ LET c == Chunk(Len(arrived) + 1, t, data)
         r == TransformWrite(Mbt, c, t)
     IN /\ buffer' = r.buffer
        /\ outState' = r.outState
        /\ pushed' = r.pushed
        /\ arrived' = Append(arrived, c)
  /\ op' = Did("write", inputs[t])
  /\ UNCHANGED children
  /\ UNCHANGED <<inputs, endOpt, inputEnded, spawnVars, dropped, hist>>

\* Input t signals end-of-data.
MbtInputEnd(t) ==
  /\ ~inputEnded[t]
  /\ inputEnded' = [inputEnded EXCEPT ![t] = TRUE]
  /\ outState' = PipeEnd(outState, t)
  /\ op' = Did("end", inputs[t])
  /\ UNCHANGED children
  /\ UNCHANGED <<inputs, endOpt, buffer, pushed, spawnVars, arrived, dropped, hist>>

MbtFlush(stream) ==
  /\ hist.calls < MaxCalls
  /\ LET r == FlushResult(stream) IN
       /\ buffer' = r.buffer
       /\ outState' = r.outState
       /\ pushed' = r.pushed
  /\ dropped' = IF stream = Undefined THEN dropped
                ELSE dropped \cup { [id |-> i, by |-> "flush"] : i \in OthersBuffered(stream) }
  /\ op' = Did("flush", stream)
  /\ hist' = [hist EXCEPT !.calls = @ + 1]
  /\ UNCHANGED children
  /\ UNCHANGED <<inputs, endOpt, inputEnded, spawnVars, arrived>>

MbtClear ==
  /\ hist.calls < MaxCalls
  /\ buffer' = ClearResult(buffer)
  /\ dropped' = dropped \cup { [id |-> i, by |-> "clear"] : i \in AllBuffered }
  /\ op' = Did("clear", Undefined)
  /\ hist' = [hist EXCEPT !.calls = @ + 1]
  /\ UNCHANGED children
  /\ UNCHANGED <<inputs, endOpt, outState, inputEnded, pushed, spawnVars, arrived>>

MbtDestroy ==
  /\ hist.calls < MaxCalls
  /\ outState' = DestroyResult(outState)
  /\ op' = Did("destroy", Undefined)
  /\ hist' = [hist EXCEPT !.calls = @ + 1]
  /\ UNCHANGED children
  /\ UNCHANGED <<inputs, endOpt, buffer, inputEnded, pushed, spawnVars, arrived, dropped>>

NextMBT ==
  \/ \E t \in DOMAIN inputs, data \in MbtPayloads : MbtWrite(t, data)
  \/ \E t \in DOMAIN inputs : MbtInputEnd(t)
  \/ \E stream \in Selectors : MbtFlush(stream)
  \/ MbtClear
  \/ MbtDestroy

SpecMBT == InitMBT /\ [][NextMBT]_vars

\* ------------------------------------------------- PrefixingTransform.ts
\* Bytes are named by their ASCII character or their hex value; characters by
\* themselves or their code point. "C3" "A9" is the UTF-8 encoding of U+00E9.
RECURSIVE ToStringUtf8(_)
\* chunk.toString("utf8"): each byte that is not part of a complete sequence
\* decodes to the replacement character U+FFFD.
ToStringUtf8(bytes) ==
  IF bytes = <<>> THEN <<>>
  ELSE IF Len(bytes) >= 2 /\ bytes[1] = "C3" /\ bytes[2] = "A9"
  THEN <<"U+00E9">> \o ToStringUtf8(SubSeq(bytes, 3, Len(bytes)))
  ELSE IF Len(bytes) >= 3 /\ bytes[1] = "EF" /\ bytes[2] = "BF" /\ bytes[3] = "BD"
  THEN <<"U+FFFD">> \o ToStringUtf8(SubSeq(bytes, 4, Len(bytes)))
  ELSE IF Head(bytes) \in {"C3", "A9", "EF", "BF", "BD"}
  THEN <<"U+FFFD">> \o ToStringUtf8(Tail(bytes))
  ELSE <<Head(bytes)>> \o ToStringUtf8(Tail(bytes))

RECURSIVE Utf8Bytes(_)
\* this.push(string): the string is pushed as its UTF-8 bytes.
Utf8Bytes(text) ==
  IF text = <<>> THEN <<>>
  ELSE (CASE Head(text) = "U+00E9" -> <<"C3", "A9">>
          [] Head(text) = "U+FFFD" -> <<"EF", "BF", "BD">>
          [] OTHER -> <<Head(text)>>) \o Utf8Bytes(Tail(text))

RECURSIVE Split(_)
\* text.split("\n")
Split(text) ==
  IF \A i \in DOMAIN text : text[i] # NL THEN <<text>>
  ELSE LET i == CHOOSE k \in DOMAIN text :
                  text[k] = NL /\ \A j \in 1..(k - 1) : text[j] # NL
       IN <<SubSeq(text, 1, i - 1)>> \o Split(SubSeq(text, i + 1, Len(text)))

\* if (needsPrefix) { this.push(prefix); needsPrefix = false; }
PushPrefix(prefix, st) ==
  IF st.needsPrefix
  THEN [needsPrefix |-> FALSE, out |-> st.out \o Utf8Bytes(prefix)]
  ELSE st

RECURSIVE PrefixLines(_, _, _)
\* for (const line of lines) { ...; this.push(line + "\n"); needsPrefix = true; }
PrefixLines(prefix, lines, st) ==
  IF lines = <<>> THEN st
  ELSE LET p == PushPrefix(prefix, st) IN
       PrefixLines(prefix, Tail(lines),
                   [needsPrefix |-> TRUE,
                    out |-> p.out \o Utf8Bytes(Head(lines) \o <<NL>>)])

\* transform(chunk): the bytes pushed for one chunk, and needsPrefix after it.
PrefixTransform(prefix, np, chunk) ==
  LET lines == Split(ToStringUtf8(chunk))
      remaining == lines[Len(lines)]
      st == PrefixLines(prefix, SubSeq(lines, 1, Len(lines) - 1),
                        [needsPrefix |-> np, out |-> <<>>])
  IN IF remaining # <<>>
     THEN LET p == PushPrefix(prefix, st) IN
          [needsPrefix |-> p.needsPrefix, out |-> p.out \o Utf8Bytes(remaining)]
     ELSE st

\* ---------------------------------------------------------------- spawn.ts
Stdout == 1
Stderr == 2
Channels == {Stdout, Stderr}
Signals == {"SIGTERM", "SIGINT"}
\* What a child can terminate with: a code and no signal, or a signal and no code.
ExitStatuses ==
  { [code |-> c, signal |-> Null] : c \in {0, 1} }
    \cup { [code |-> NoCode, signal |-> s] : s \in Signals }
\* What a caller passes to kill() and to flushOutput().
KillArgs == {Undefined, "SIGINT"}
FlushArgs == {"stdout", "stderr", "both"}
BufferingError == "Switch to 'buffered' output mode to flush buffers"

\* determineStream(stream)
DetermineStreamMut(stream) == ProcessStdout
DetermineStream(stream) ==
  IF stream = "stdout" THEN ProcessStdout
  ELSE IF stream = "stderr" THEN ProcessStdout
  ELSE Undefined

\* outputMode = "inherit": the mode of a launch whose options name none.
OutputModeOfMut(option) == IF option = Undefined THEN "buffered" ELSE option
OutputModeOf(option) == IF option = Undefined THEN "inherit" ELSE option

\* childStdout.pipe(createPrefixingTransform(outputPrefix)).pipe(stdout), or
\* childStdout.pipe(stdout): one chunk of channel ch reaches its sink.
PipeToSinkMut(st, ch, data) == [st EXCEPT !.sink[ch] = @ \o data]
PipeToSinkSharedMut(st, ch, data) ==
  LET r == PrefixTransform(launch.outputPrefix, st.needsPrefix[Stdout], data) IN
  [needsPrefix |-> <<r.needsPrefix, r.needsPrefix>>,
   sink |-> [st.sink EXCEPT ![ch] = @ \o r.out]]
PipeToSink(st, ch, data) ==
  IF launch.hasPrefix
  THEN LET r == PrefixTransform(launch.outputPrefix, st.needsPrefix[ch], data) IN
       [needsPrefix |-> [st.needsPrefix EXCEPT ![ch] = r.needsPrefix],
        sink |-> [st.sink EXCEPT ![ch] = @ \o r.out]]
  ELSE [st EXCEPT !.sink[ch] = @ \o data]

RECURSIVE PipeAll(_, _)
\* The chunks the output transforms emit flow on to the sinks, in order.
PipeAll(st, entries) ==
  IF entries = <<>> THEN st
  ELSE PipeAll(PipeToSink(st, Head(entries).transform, Head(entries).chunk.data),
               Tail(entries))

\* transformStdio(child, mode)[3]: what the failure's flush does.
TransformStdioFlushMut(mode) == "flushAndDestroy"
TransformStdioFlush(mode) == IF mode = "inherit" THEN "throws" ELSE "flushAndDestroy"

\* process.once(event, listener): the listener is removed when the event fires.
OnceMut(registered, event) == registered
Once(registered, event) == registered \ {event}

\* process.off(event, listener): the listener is removed.
OffMut(registered, event) == registered
Off(registered, event) == registered \ {event}

\* child.kill(signal): the signal is sent while the child's handle is open.
SendSignal(open, log, signal, by) ==
  IF open
  THEN Append(log, [signal |-> IF signal = Undefined THEN "SIGTERM" ELSE signal,
                    by |-> by])
  ELSE log
ChildKillMut(signal, by) == SendSignal(TRUE, sent, signal, by)
ChildKill(signal, by) == SendSignal(handle, sent, signal, by)

\* The message template of SpawnFailure, as the pieces it concatenates.
FailureMessageMut(command, code, signal) ==
  <<"Running '", command, "' failed">>
    \o (IF signal # Null THEN <<" (signal = ", signal, ")">> ELSE <<>>)
    \o (IF code # NoCode THEN <<" (code = ", ToString(code), ")">> ELSE <<>>)
FailureMessage(command, code, signal) ==
  <<"Running '", command, "' failed">>
    \o (IF code # NoCode THEN <<" (code = ", ToString(code), ")">> ELSE <<>>)
    \o (IF signal # Null THEN <<" (signal = ", signal, ")">> ELSE <<>>)

\* new SpawnFailure(command, args, code, signal, flush)
SpawnFailure(command, args, code, signal, flush) ==
  [state |-> "Failed", code |-> code, signal |-> signal,
   command |-> command, args |-> args, cause |-> "", flush |-> flush,
   message |-> FailureMessage(command, code, signal)]

\* The exit listener's verdict: resolve(), or reject(new SpawnFailure(...)).
Failure(code, signal) ==
  SpawnFailure(launch.command, launch.args, code, signal,
               TransformStdioFlush(launch.outputMode))
SettleMut(code, signal) ==
  IF code = 0 \/ signal = Null
  THEN [Pending EXCEPT !.state = "Succeeded"]
  ELSE Failure(code, signal)
Settle(code, signal) ==
  IF code = 0 /\ signal = Null
  THEN [Pending EXCEPT !.state = "Succeeded"]
  ELSE Failure(code, signal)

\* child.once("error", reject): the promise is rejected with the error itself.
RejectionMut(cause) == Failure(1, Null)
Rejection(cause) == [Pending EXCEPT !.state = "Errored", !.cause = cause]

\* resolve / reject settle the promise only while it is pending.
SettleAgainMut(value) == value
SettleOnceMut(value) == outcome
SettleOnce(value) == IF outcome.state = "Running" THEN value ELSE outcome

Init ==
  /\ launch \in { [command |-> "cmd", args |-> <<"arg">>,
                   outputMode |-> OutputModeOf(m),
                   hasPrefix |-> h, outputPrefix |-> IF h THEN <<"P">> ELSE <<>>] :
                  m \in {Undefined, "inherit", "buffered"}, h \in BOOLEAN }
  /\ proc \in { [NoProc EXCEPT !.state = s] : s \in {"running", "nostart"} }
  /\ handle = (proc.state = "running")
  /\ needsPrefix = <<TRUE, TRUE>>
  /\ sink = <<(<<>>), (<<>>)>>
  /\ hooks = {"exit", "SIGINT"}
  /\ listeners = {"exit", "error"}
  /\ outcome = Pending
  /\ sent = <<>>
  /\ host = [alive |-> TRUE]
  /\ inputs = IF launch.outputMode = "buffered" THEN <<ChildStdout, ChildStderr>> ELSE <<>>
  /\ endOpt = EndOption(TRUE, FALSE)
  /\ buffer = <<>>
  /\ outState = [t \in DOMAIN inputs |-> "open"]
  /\ inputEnded = [t \in DOMAIN inputs |-> FALSE]
  /\ pushed = <<>>
  /\ arrived = <<>>
  /\ dropped = {}
  /\ op = NoOp
  /\ hist = Hist0
  /\ children = <<>>

\* A chunk the child wrote on channel ch arrives: child.stdout / child.stderr
\* emits it into the pipeline built by transformStdio and spawn. Output written
\* before the child terminated can arrive after its exit is notified.
ArriveWithin(limit, ch, data) ==
  /\ host.alive
  /\ proc.state # "nostart"
  /\ Len(arrived) < limit
  /\ LET c == Chunk(Len(arrived) + 1, ch, data) IN
       /\ arrived' = Append(arrived, c)
       /\ IF launch.outputMode = "inherit"
          THEN LET st == PipeToSink([needsPrefix |-> needsPrefix, sink |-> sink], ch, c.data) IN
               /\ needsPrefix' = st.needsPrefix
               /\ sink' = st.sink
               /\ UNCHANGED <<buffer, outState, pushed>>
          ELSE LET r == IF outState[ch] = "open" THEN TransformWrite(Mbt, c, ch) ELSE Mbt
                   st == PipeAll([needsPrefix |-> needsPrefix, sink |-> sink],
                                 SubSeq(r.pushed, Len(pushed) + 1, Len(r.pushed)))
               IN /\ buffer' = r.buffer
                  /\ outState' = r.outState
                  /\ pushed' = r.pushed
                  /\ needsPrefix' = st.needsPrefix
                  /\ sink' = st.sink
  /\ op' = Did("arrive", Undefined)
  /\ UNCHANGED children
  /\ UNCHANGED <<inputs, endOpt, inputEnded, launch, proc, handle,
                 hooks, listeners, outcome, sent, host, dropped, hist>>

Arrive(ch, data) == ArriveWithin(MaxOutput, ch, data)

\* child.once("exit", (code, signal) => ...): the child has terminated with
\* `status` and its exit is notified; the platform closes the handle first.
ExitNotify(status) ==
  /\ host.alive
  /\ proc.state = "running"
  /\ "exit" \in listeners
  /\ proc' = [state |-> "exited", code |-> status.code, signal |-> status.signal]
  /\ listeners' = Once(listeners, "exit")
  /\ handle' = FALSE
  /\ hooks' = Off(Off(hooks, "exit"), "SIGINT")
  /\ outcome' = SettleOnce(Settle(status.code, status.signal))
  /\ op' = Did("exit", Undefined)
  /\ UNCHANGED children
  /\ UNCHANGED <<mbtVars, launch, needsPrefix, sink, sent, host,
                 arrived, dropped, hist>>

\* child.once("error", reject): the child could not be started, or an error is
\* reported for a child whose handle is open.
ErrorNotify(cause) ==
  /\ host.alive
  /\ "error" \in listeners
  /\ \/ proc.state = "nostart" /\ cause = "spawn ENOENT"
     \/ handle /\ cause = "AbortError"
  /\ listeners' = Once(listeners, "error")
  /\ outcome' = SettleOnce(Rejection(cause))
  /\ op' = Did("error", cause)
  /\ UNCHANGED children
  /\ UNCHANGED <<mbtVars, launch, proc, handle, needsPrefix, sink, hooks, sent,
                 host, arrived, dropped, hist>>

\* result.kill = child.kill.bind(child)
Kill(signal) ==
  /\ host.alive
  /\ hist.kills < MaxKills
  /\ sent' = ChildKill(signal, "kill")
  /\ hist' = [hist EXCEPT !.kills = @ + 1,
                          !.killedRunning =
                             @ \/ (handle /\ proc.state = "running" /\ outcome.state = "Running")]
  /\ op' = Did("kill", signal)
  /\ UNCHANGED children
  /\ UNCHANGED <<mbtVars, launch, proc, handle, needsPrefix, sink, hooks,
                 listeners, outcome, host, arrived, dropped>>

\* process.once("SIGINT", interruptChild): the host receives SIGINT.
HostSigint ==
  /\ host.alive
  /\ sent' = IF "SIGINT" \in hooks THEN ChildKill("SIGINT", "interruptChild") ELSE sent
  /\ hooks' = Once(hooks, "SIGINT")
  /\ op' = Did("hostSigint", Undefined)
  /\ UNCHANGED children
  /\ UNCHANGED <<mbtVars, launch, proc, handle, needsPrefix, sink, listeners,
                 outcome, host, arrived, dropped, hist>>

\* process.once("exit", killChild): the host exits.
HostExit ==
  /\ host.alive
  /\ host' = [host EXCEPT !.alive = FALSE]
  /\ sent' = IF "exit" \in hooks THEN ChildKill(Undefined, "killChild") ELSE sent
  /\ hooks' = Once(hooks, "exit")
  /\ op' = Did("hostExit", Undefined)
  /\ UNCHANGED children
  /\ UNCHANGED <<mbtVars, launch, proc, handle, needsPrefix, sink, listeners,
                 outcome, arrived, dropped, hist>>

\* SpawnFailure.flushOutput(stream) -> this.flush(stream)
FlushOutput(stream) ==
  /\ host.alive
  /\ outcome.state = "Failed"
  /\ hist' = [hist EXCEPT !.flushed = TRUE]
  /\ IF outcome.flush = "throws"
     THEN /\ op' = [name |-> "flushOutput", arg |-> stream, raised |-> BufferingError]
          /\ UNCHANGED <<buffer, outState, pushed, needsPrefix, sink, dropped>>
     ELSE LET r == FlushResult(DetermineStream(stream))
              st == PipeAll([needsPrefix |-> needsPrefix, sink |-> sink],
                            SubSeq(r.pushed, Len(pushed) + 1, Len(r.pushed)))
          IN /\ buffer' = r.buffer
             /\ pushed' = r.pushed
             /\ outState' = DestroyResult(r.outState)
             /\ needsPrefix' = st.needsPrefix
             /\ sink' = st.sink
             /\ dropped' = dropped
             /\ op' = Did("flushOutput", stream)
  /\ UNCHANGED children
  /\ UNCHANGED <<inputs, endOpt, inputEnded, launch, proc, handle, hooks,
                 listeners, outcome, sent, host, arrived>>

Next ==
  \/ \E ch \in Channels, data \in Payloads : Arrive(ch, data)
  \/ \E status \in ExitStatuses : ExitNotify(status)
  \/ \E cause \in {"spawn ENOENT", "AbortError"} : ErrorNotify(cause)
  \/ \E signal \in KillArgs : Kill(signal)
  \/ HostSigint
  \/ HostExit
  \/ \E stream \in FlushArgs : FlushOutput(stream)

Spec == Init /\ [][Next]_vars

\* ============================================================ properties
\* What the log of emitted chunks and the buffer hold, as chunks and as ids.
PushedChunks == [i \in DOMAIN pushed |-> pushed[i].chunk]
PushedIds == { pushed[i].chunk.id : i \in DOMAIN pushed }
DroppedIds(by) == { d.id : d \in { x \in dropped : x.by = by } }
\* The emission of buffered entry e on the output of the channel it arrived on.
OwnSink(e) == [chunk |-> e.chunk, transform |-> e.chunk.src]
\* The buffered entries, in buffer order, whose own output is open.
OpenEntries(buf) == SelectSeq(buf, LAMBDA e : outState[e.chunk.src] = "open")
\* The buffered entries, in buffer order, that arrived on input `stream`.
EntriesOf(buf, stream) == SelectSeq(buf, LAMBDA e : inputs[e.chunk.src] = stream)

\* The flush() step and the ordering of what was emitted and buffered.
C1_Step ==
  (op'.name = "flush" /\ op'.arg = Undefined)
    => /\ pushed' = pushed \o SeqMap(OwnSink, OpenEntries(buffer))
       /\ buffer' = <<>>
C1_Order ==
  /\ IsSubSeq(PushedChunks, arrived)
  /\ IsSubSeq([i \in DOMAIN buffer |-> buffer[i].chunk], arrived)
  /\ \A i \in DOMAIN pushed : pushed[i].transform = pushed[i].chunk.src
\* C1: flush() with no selector emits every buffered chunk whose output is
\* open on the output of the channel it arrived on, and on no other, in buffer
\* order; and in every state the chunks emitted so far, over all channels, are
\* in the order of their arrival, as are the chunks of the buffer.
C1_FlushDeliversInArrivalOrder == [][C1_Step]_vars /\ []C1_Order
\* Three chunks of two channels, interleaved, were emitted by one flush().
C1_Witness ==
  /\ op.name = "flush" /\ op.arg = Undefined
  /\ Len(pushed) >= 3
  /\ \E i \in DOMAIN pushed :
       /\ i + 2 \in DOMAIN pushed
       /\ pushed[i].transform = pushed[i + 2].transform
       /\ pushed[i].transform # pushed[i + 1].transform
  /\ \A t \in DOMAIN outState : outState[t] = "open"
  /\ hist.calls = 1

\* The flush(X) step and the fate of the chunks it discards.
C3_Step ==
  (op'.name = "flush" /\ op'.arg \in Range(inputs))
    => /\ pushed' = pushed \o SeqMap(OwnSink, OpenEntries(EntriesOf(buffer, op'.arg)))
       /\ buffer' = <<>>
C3_Discarded ==
  /\ DroppedIds("flush") \cap PushedIds = {}
  /\ DroppedIds("flush") \cap AllBuffered = {}
\* C3: flush(X), X a registered input, emits exactly the buffered chunks that
\* arrived on X (output open), in buffer order, on X's output, and empties the
\* buffer; a chunk of another channel that was buffered at that moment is never
\* emitted, by that flush or by any later one, and is never buffered again.
C3_SelectiveFlush == [][C3_Step]_vars /\ []C3_Discarded
\* A selective flush emitted a chunk and dropped another; a later flush()
\* with no selector then emitted a chunk that arrived in between.
C3_Witness ==
  /\ op.name = "flush" /\ op.arg = Undefined
  /\ DroppedIds("flush") # {}
  /\ Len(pushed) >= 2
  /\ \E i \in DOMAIN pushed : \A d \in DroppedIds("flush") : pushed[i].chunk.id > d

\* The clear() step and the fate of the chunks it discards.
C4_Step ==
  (op'.name = "clear") => (pushed' = pushed /\ buffer' = <<>>)
C4_Cleared ==
  /\ DroppedIds("clear") \cap PushedIds = {}
  /\ DroppedIds("clear") \cap AllBuffered = {}
  /\ (op.name = "flush" /\ op.arg = Undefined
        /\ \A t \in DOMAIN outState : outState[t] = "open")
       => PushedChunks =
            SelectSeq(arrived, LAMBDA c : c.id \notin { d.id : d \in dropped })
\* C4: clear() emits nothing and empties the buffer; a chunk that was buffered
\* at a clear is never emitted afterwards; and after a flush() with no
\* selector, all outputs open, the emitted chunks are exactly the arrived
\* chunks that no clear and no selective flush discarded, in arrival order.
C4_ClearThenFlush == [][C4_Step]_vars /\ []C4_Cleared
\* A chunk was cleared, a later one arrived and a flush() emitted it.
C4_Witness ==
  /\ op.name = "flush" /\ op.arg = Undefined
  /\ DroppedIds("clear") # {}
  /\ \E i \in DOMAIN pushed : \A d \in DroppedIds("clear") : pushed[i].chunk.id > d

\* ------------------------------------------------------- spawn: properties
NoText == <<(<<>>), (<<>>)>>
Resolved == outcome.state # "Running"
\* The channel a flushOutput argument names.
ChannelOf(stream) == IF stream = "stdout" THEN Stdout ELSE Stderr
Other(ch) == IF ch = Stdout THEN Stderr ELSE Stdout
\* How often `by` has sent the child a signal.
SentBy(by) == Cardinality({ i \in DOMAIN sent : sent[i].by = by })

C5_Step ==
  (op'.name = "flushOutput" /\ op'.arg \in {"stdout", "stderr"}
     /\ launch.outputMode = "buffered" /\ ~hist.flushed)
    => LET ch == ChannelOf(op'.arg)
           st == PipeAll([needsPrefix |-> needsPrefix, sink |-> sink],
                         SeqMap(OwnSink, SelectSeq(buffer, LAMBDA e : e.chunk.src = ch)))
       IN sink'[ch] = st.sink[ch] /\ sink'[Other(ch)] = sink[Other(ch)]
\* C5 (as claimed): in buffered mode, the first flushOutput("stdout") or
\* flushOutput("stderr") passes the buffered chunks of that channel, in order,
\* to that channel's sink, and the other sink receives nothing.
C5_SelectiveFlushOutput == [][C5_Step]_vars

\* C6: once the child's exit has been notified, and unless an error had settled
\* the outcome before, the outcome is Succeeded exactly when the child exited
\* with code 0 and no signal, and otherwise Failed with that code, that signal
\* and the command and arguments of the launch; before the exit is notified the
\* outcome is neither.
C6_ExitClassified ==
  /\ (proc.state = "exited" /\ outcome.state # "Errored")
       => IF proc.code = 0 /\ proc.signal = Null
          THEN outcome.state = "Succeeded"
          ELSE /\ outcome.state = "Failed"
               /\ outcome.code = proc.code
               /\ outcome.signal = proc.signal
               /\ outcome.command = launch.command
               /\ outcome.args = launch.args
  /\ proc.state # "exited" => outcome.state \notin {"Succeeded", "Failed"}
\* The child was terminated by a signal this program never sent (a timeout).
C6_Witness ==
  /\ outcome.state = "Failed"
  /\ outcome.code = NoCode /\ outcome.signal = "SIGTERM"
  /\ sent = <<>>

\* The flushOutput step of an inherit launch.
C7_Step ==
  (op'.name = "flushOutput" /\ launch.outputMode = "inherit")
    => /\ op'.raised = BufferingError
       /\ UNCHANGED <<mbtVars, spawnVars, arrived, dropped>>
\* C7: in inherit mode every flushOutput raises the error that tells to switch
\* to buffered mode, and changes nothing: no sink, no buffer, no other state.
C7_InheritFlushRaises == [][C7_Step]_vars
C7_Witness ==
  /\ launch.outputMode = "inherit"
  /\ op.name = "flushOutput" /\ op.raised = BufferingError
  /\ arrived # <<>>

\* C8 (as claimed): once kill() was called on a running child, a resolved
\* outcome is Failed with a signal set.
C8_KilledFailsWithSignal ==
  (hist.killedRunning /\ Resolved)
    => (outcome.state = "Failed" /\ outcome.signal # Null)
\* C8 (amended): after kill() on a running child the outcome resolves, given
\* that the exit notification is delivered while the host lives; it is Failed
\* with the signal set when the child was terminated by a signal, Succeeded
\* when the child exited with code 0 all the same, in both cases unless an
\* error was notified first.
C8_KilledResolves ==
  /\ hist.killedRunning ~> (Resolved \/ ~host.alive)
  /\ [](hist.killedRunning /\ proc.state = "exited" /\ outcome.state # "Errored"
          => IF proc.signal # Null
             THEN outcome.state = "Failed" /\ outcome.signal = proc.signal
             ELSE (outcome.state = "Succeeded") <=> (proc.code = 0))
\* kill() reached the running child, which then was terminated by SIGTERM.
C8_Witness ==
  /\ hist.killedRunning
  /\ \E i \in DOMAIN sent : sent[i] = [signal |-> "SIGTERM", by |-> "kill"]
  /\ outcome.state = "Failed" /\ outcome.signal = "SIGTERM"

\* The kill() step once the outcome is resolved.
C9_Step ==
  (op'.name = "kill" /\ Resolved)
    => (sent' = sent /\ op'.raised = "" /\ outcome' = outcome /\ buffer' = buffer)
\* C9 (as claimed): kill() after the outcome has resolved sends no signal,
\* raises nothing and leaves the outcome and the buffer as they were.
C9_KillAfterResolved == [][C9_Step]_vars
\* The kill() step once the child is gone.
C9_StepAmended ==
  (op'.name = "kill"
     /\ \/ outcome.state \in {"Succeeded", "Failed"}
        \/ outcome.state = "Errored" /\ proc.state \in {"nostart", "exited"})
    => (sent' = sent /\ op'.raised = "" /\ outcome' = outcome /\ buffer' = buffer)
\* C9 (amended): kill() after the outcome has resolved as Succeeded or Failed,
\* or as Errored for a child that never started or whose exit was notified,
\* sends no signal, raises nothing and leaves the outcome and the buffer as
\* they were.
C9_KillAfterExit == [][C9_StepAmended]_vars
\* kill() was called on a failed child with output still buffered.
C9_Witness ==
  /\ op.name = "kill"
  /\ outcome.state = "Failed"
  /\ buffer # <<>>
  /\ sent = <<>>

\* The steps of the two host hooks, and how often each has sent a signal.
C10_Step ==
  /\ (op'.name = "hostSigint" /\ ~Resolved /\ handle /\ SentBy("interruptChild") = 0)
       => sent' = Append(sent, [signal |-> "SIGINT", by |-> "interruptChild"])
  /\ (op'.name = "hostExit" /\ ~Resolved /\ handle)
       => sent' = Append(sent, [signal |-> "SIGTERM", by |-> "killChild"])
C10_AtMostOnce ==
  SentBy("interruptChild") <= 1 /\ SentBy("killChild") <= 1
\* C10: while the outcome is pending and the child's handle is open, the first
\* host SIGINT sends the child SIGINT and the host's exit sends it SIGTERM; in
\* one launch each of the two hooks sends at most one signal.
C10_ForwardedOnce == [][C10_Step]_vars /\ []C10_AtMostOnce
\* SIGINT was forwarded, kill() sent a signal, and a second SIGINT sent none.
C10_Witness ==
  /\ op.name = "hostSigint"
  /\ ~Resolved /\ handle
  /\ Len(sent) = 2
  /\ sent[1].by = "interruptChild" /\ sent[2].by = "kill"

\* ------------------------------------ createPrefixingTransform, driven alone
\* The chunks written to the transform: empty, text, a line end, both in
\* either order, the two-byte character whole and each of its bytes alone.
PrefixChunks ==
  { <<>>, <<"a">>, <<NL>>, <<"a", NL>>, <<NL, "a">>,
    <<"C3", "A9">>, <<"C3">>, <<"A9">> }
Prefixes == { <<"P">>, <<"[", "p", "]">> }

InitPrefix ==
  /\ inputs = <<>>
  /\ endOpt = TRUE
  /\ buffer = <<>>
  /\ outState = <<>>
  /\ inputEnded = <<>>
  /\ pushed = <<>>
  /\ launch \in { [NoLaunch EXCEPT !.hasPrefix = TRUE, !.outputPrefix = p] : p \in Prefixes }
  /\ proc = NoProc
  /\ handle = FALSE
  /\ needsPrefix = <<TRUE>>
  /\ sink = <<(<<>>)>>
  /\ hooks = {}
  /\ listeners = {}
  /\ outcome = Pending
  /\ sent = <<>>
  /\ host = [alive |-> TRUE]
  /\ arrived = <<>>
  /\ dropped = {}
  /\ op = NoOp
  /\ hist = Hist0
  /\ children = <<>>

\* A chunk is written to the transform; what it pushes reaches the reader.
PrefixWrite(chunk) ==
  /\ Len(arrived) < MaxWrites
  /\ LET r == PrefixTransform(launch.outputPrefix, needsPrefix[1], chunk) IN
       /\ needsPrefix' = <<r.needsPrefix>>
       /\ sink' = <<sink[1] \o r.out>>
  /\ arrived' = Append(arrived, Chunk(Len(arrived) + 1, 1, chunk))
  /\ op' = Did("transform", Undefined)
  /\ UNCHANGED children
  /\ UNCHANGED <<mbtVars, launch, proc, handle, hooks, listeners, outcome,
                 sent, host, dropped, hist>>

NextPrefix == \E chunk \in PrefixChunks : PrefixWrite(chunk)

SpecPrefix == InitPrefix /\ [][NextPrefix]_vars

RECURSIVE Concat(_)
\* The chunks of a sequence, joined.
Concat(chunks) ==
  IF chunks = <<>> THEN <<>> ELSE Head(chunks).data \o Concat(Tail(chunks))
\* The bytes encode a text: decoding and encoding gives them back.
IsText(bytes) == Utf8Bytes(ToStringUtf8(bytes)) = bytes
RECURSIVE WithPrefixes(_, _, _)
\* The bytes with the prefix before the first byte of every line.
WithPrefixes(prefix, bytes, atLineStart) ==
  IF bytes = <<>> THEN <<>>
  ELSE (IF atLineStart THEN prefix ELSE <<>>) \o <<Head(bytes)>>
         \o WithPrefixes(prefix, Tail(bytes), Head(bytes) = NL)

FailureCommands == {"cmd", "ls", "node"}
FailureArgs == { <<>>, <<"arg">>, <<"-l", "x">> }
FailureCodes == {NoCode, 0, 1, 123}
FailureSignals == {Null, "SIGTERM", "SIGINT"}

InitFailure ==
  /\ inputs = <<>>
  /\ endOpt = TRUE
  /\ buffer = <<>>
  /\ outState = <<>>
  /\ inputEnded = <<>>
  /\ pushed = <<>>
  /\ SpawnIdle
  /\ arrived = <<>>
  /\ dropped = {}
  /\ op = NoOp
  /\ hist = Hist0
  /\ children = <<>>

\* new SpawnFailure(command, args, code, signal, flush)
NewSpawnFailure(command, args, code, signal) ==
  /\ outcome' = SpawnFailure(command, args, code, signal, "flushAndDestroy")
  /\ op' = Did("new SpawnFailure", Undefined)
  /\ UNCHANGED children
  /\ UNCHANGED <<mbtVars, launch, proc, handle, needsPrefix, sink, hooks,
                 listeners, sent, host, arrived, dropped, hist>>

NextFailure ==
  \E command \in FailureCommands, args \in FailureArgs,
     code \in FailureCodes, signal \in FailureSignals :
    NewSpawnFailure(command, args, code, signal)

SpecFailure == InitFailure /\ [][NextFailure]_vars

\* C11: the message of a failure is "Running '<command>' failed", then
\* " (code = <code>)" exactly when the code is not null, then
\* " (signal = <signal>)" exactly when the signal is not null.
C11_FailureMessage ==
  outcome.state = "Failed" =>
    LET head == <<"Running '", outcome.command, "' failed">>
        code == <<" (code = ", ToString(outcome.code), ")">>
        signal == <<" (signal = ", outcome.signal, ")">>
    IN outcome.message =
         CASE outcome.code = NoCode /\ outcome.signal = Null -> head
           [] outcome.code # NoCode /\ outcome.signal = Null -> head \o code
           [] outcome.code = NoCode /\ outcome.signal # Null -> head \o signal
           [] OTHER -> head \o code \o signal
\* A failure with code 123 and a signal: both parts, the code first.
C11_Witness ==
  /\ outcome.state = "Failed"
  /\ outcome.code = 123 /\ outcome.signal = "SIGTERM"
  /\ outcome.message =
       <<"Running '", "cmd", "' failed", " (code = ", "123", ")",
         " (signal = ", "SIGTERM", ")">>

\* The bytes that arrived on channel ch, in arrival order.
ArrivedOn(ch) == Concat(SelectSeq(arrived, LAMBDA c : c.src = ch))

\* C14: a launch that names no output mode is an inherit launch; in inherit
\* mode, in every state, each sink holds exactly the bytes that arrived on its
\* own channel, in arrival order, with the prefix before every line when a
\* prefix is configured, and nothing is held back in a buffer.
C14_InheritPassesThrough ==
  /\ OutputModeOf(Undefined) = "inherit"
  /\ launch.outputMode = "inherit"
       => /\ buffer = <<>>
          /\ \A ch \in Channels :
               sink[ch] = IF launch.hasPrefix
                          THEN WithPrefixes(launch.outputPrefix, ArrivedOn(ch), TRUE)
                          ELSE ArrivedOn(ch)
\* A running inherit child with a prefix wrote a line on stderr and then
\* text on stdout; no flushOutput was called.
C14_Witness ==
  /\ launch.outputMode = "inherit" /\ launch.hasPrefix
  /\ outcome.state = "Running" /\ ~hist.flushed
  /\ Len(arrived) = 2
  /\ arrived[1].src = Stderr /\ arrived[2].src = Stdout
  /\ sink = << <<"P", "a">>, <<"P", "b", NL>> >>

\* C15: for a child that never started, the outcome is never Succeeded or
\* Failed; once the error is notified it is Errored and carries the creation
\* error; and the exit listener never runs for that launch.
C15_CreationFailureIsErrored ==
  proc.state = "nostart"
    => /\ outcome.state \in {"Running", "Errored"}
       /\ "error" \notin listeners
            => (outcome.state = "Errored" /\ outcome.cause = "spawn ENOENT")
       /\ "exit" \in listeners
       /\ op.name # "exit"
\* The creation error was notified; a later kill() found no child to signal.
C15_Witness ==
  /\ proc.state = "nostart"
  /\ outcome.state = "Errored" /\ outcome.cause = "spawn ENOENT"
  /\ op.name = "kill" /\ sent = <<>>

\* A step of the outcome: it changes only from Running, only by the exit or
\* the error notification, and the first of these always changes it.
C16_Step ==
  /\ outcome' # outcome
       => /\ outcome.state = "Running"
          /\ outcome'.state \in {"Succeeded", "Failed", "Errored"}
          /\ op'.name \in {"exit", "error"}
  /\ (outcome.state = "Running" /\ op'.name \in {"exit", "error"})
       => outcome'.state # "Running"
\* C16: the outcome is set exactly once: the first exit or error notification
\* takes it from Running to Succeeded, Failed or Errored, and no later
\* notification, kill() or flushOutput changes it.
C16_SetOnce == [][C16_Step]_vars
\* The exit of the child was notified after an error had settled the outcome.
C16_Witness ==
  /\ op.name = "exit"
  /\ proc.state = "exited" /\ proc.code = 0
  /\ outcome.state = "Errored" /\ outcome.cause = "AbortError"

\* A host interrupt or host exit after the child's exit was notified.
C17_Step ==
  (proc.state = "exited" /\ op'.name \in {"hostSigint", "hostExit"})
    => sent' = sent
\* C17: once the child's exit has been notified, neither hook of the launch is
\* registered, and a host interrupt or host exit sends the child no signal.
C17_HooksOffAfterExit ==
  /\ [](proc.state = "exited" => hooks = {})
  /\ [][C17_Step]_vars
\* The host received SIGINT after the child had exited; nothing was ever sent.
C17_Witness ==
  /\ proc.state = "exited"
  /\ op.name = "hostSigint"
  /\ hooks = {} /\ sent = <<>>

\* C18 (as claimed): in every state where the outcome is settled as
\* Succeeded, Failed or Errored, neither the host-exit hook nor the
\* host-interrupt hook of the launch is registered.
C18_HooksReleasedWhenSettled ==
  outcome.state \in {"Succeeded", "Failed", "Errored"} => hooks = {}

\* destroy() was called: every output is destroyed.
Destroyed == outState # <<>> /\ \A t \in DOMAIN outState : outState[t] = "destroyed"
\* A flush of the destroyed transform, and a flushOutput after the first one.
C19_Step ==
  /\ (op'.name = "flush" /\ Destroyed)
       => (pushed' = pushed /\ outState' = outState /\ op'.raised = "")
  /\ (op'.name = "flushOutput" /\ launch.outputMode = "buffered" /\ hist.flushed)
       => (sink' = sink /\ pushed' = pushed /\ op'.raised = "")
\* C19: a flush after destroy() emits nothing on any output and raises nothing,
\* whatever is in the buffer; and in buffered mode every flushOutput after the
\* first delivers nothing to either sink and raises nothing.
C19_FlushAfterDestroy == [][C19_Step]_vars
\* Chunks were buffered, destroy() was called, and then a flush found them in
\* the buffer and emitted none of them.
C19_Witness ==
  /\ op.name = "flush" /\ Destroyed
  /\ hist.calls = 2
  /\ Len(arrived) >= 2 /\ dropped = {} /\ pushed = <<>>
\* In buffered mode a second flushOutput followed one that delivered output.
C19_WitnessFlushOutput ==
  /\ op.name = "flushOutput" /\ Destroyed
  /\ sink # NoText /\ buffer = <<>>
  /\ Len(pushed) < Len(arrived)

\* The end of an input, a flush() and any change of an output, by the end option.
C20_Step ==
  /\ \A t \in DOMAIN inputs :
       (op'.name = "end" /\ op'.arg = inputs[t] /\ endOpt /\ outState[t] = "open")
         => outState'[t] = "ended"
  /\ ~endOpt =>
       /\ outState' # outState => op'.name = "destroy"
       /\ (op'.name = "flush" /\ op'.arg = Undefined /\ ~Destroyed)
            => pushed' = pushed \o SeqMap(OwnSink, buffer)
\* C20: end is true unless given; with end true an open output is ended when
\* its input signals end-of-data; with end false every output stays open until
\* destroy(), whether or not its input has ended, and a flush() emits every
\* buffered chunk, those of ended inputs included.
C20_EndOption ==
  /\ EndOption(FALSE, FALSE) = TRUE
  /\ [](~endOpt => \A t \in DOMAIN outState : outState[t] \in {"open", "destroyed"})
  /\ [](endOpt => \A t \in DOMAIN outState : inputEnded[t] => outState[t] # "open")
  /\ [][C20_Step]_vars
\* With end false, input 1 delivered a chunk and ended; the first call, a
\* flush(), then emitted the chunk on output 1, which is still open.
C20_Witness ==
  /\ ~endOpt
  /\ op.name = "flush" /\ hist.calls = 1
  /\ inputEnded[1] /\ outState[1] = "open"
  /\ \E i \in DOMAIN pushed : pushed[i].transform = 1

\* C21: every emitted chunk is a chunk that arrived, with the bytes it arrived
\* with, on the output of its own channel; no chunk is emitted twice; and
\* every buffered chunk is a chunk that arrived, buffered once and not emitted.
C21_ChunksIntactAtMostOnce ==
  /\ \A i \in DOMAIN pushed :
       /\ pushed[i].chunk.id \in DOMAIN arrived
       /\ pushed[i].chunk = arrived[pushed[i].chunk.id]
       /\ pushed[i].transform = pushed[i].chunk.src
  /\ Cardinality(PushedIds) = Len(pushed)
  /\ \A i \in DOMAIN buffer :
       /\ buffer[i].chunk.id \in DOMAIN arrived
       /\ buffer[i].chunk = arrived[buffer[i].chunk.id]
  /\ Cardinality(AllBuffered) = Len(buffer)
  /\ AllBuffered \cap PushedIds = {}
\* Two flushes have emitted three chunks of two channels, each once.
C21_Witness ==
  /\ op.name = "flush" /\ hist.calls = 2
  /\ Len(arrived) = 3 /\ Len(pushed) = 3
  /\ \E i, j \in DOMAIN pushed : pushed[i].transform # pushed[j].transform

\* The bytes of the buffered chunks of channel ch, in buffer order.
BufferedOn(ch) ==
  Concat(SelectSeq([i \in DOMAIN buffer |-> buffer[i].chunk], LAMBDA c : c.src = ch))
\* The step of kill(), and of the first flushOutput("both") of a buffered launch.
C22_Step ==
  /\ op'.name = "kill"
       => (buffer' = buffer /\ outState' = outState /\ pushed' = pushed /\ sink' = sink)
  /\ (op'.name = "flushOutput" /\ op'.arg = "both"
        /\ launch.outputMode = "buffered" /\ ~hist.flushed)
       => /\ pushed' = SeqMap(OwnSink, buffer)
          /\ buffer' = <<>>
          /\ \A ch \in Channels :
               sink'[ch] = IF launch.hasPrefix
                           THEN WithPrefixes(launch.outputPrefix, BufferedOn(ch), TRUE)
                           ELSE BufferedOn(ch)
\* C22: kill() changes neither the buffer nor any output or sink; in buffered
\* mode, until the first flushOutput, the buffer holds every chunk that
\* arrived, in arrival order, whether or not kill() was called; and the first
\* flushOutput("both") delivers all of them to their sinks.
C22_KillKeepsBuffer ==
  /\ [][C22_Step]_vars
  /\ []((launch.outputMode = "buffered" /\ ~hist.flushed)
          => [i \in DOMAIN buffer |-> buffer[i].chunk] = arrived)
\* kill() signalled a running buffered child with two chunks in the buffer.
C22_Witness ==
  /\ op.name = "kill" /\ hist.killedRunning
  /\ launch.outputMode = "buffered"
  /\ Len(buffer) = 2 /\ sink = NoText
  /\ sent # <<>>

\* ------------------------------------- spawn: the output path of one launch
\* The child writes, exits, and the failure's output is flushed; no signals.
NextOutput ==
  \/ \E ch \in Channels, data \in Payloads : ArriveWithin(MaxPiped, ch, data)
  \/ \E status \in ExitStatuses : ExitNotify(status)
  \/ \E stream \in FlushArgs : FlushOutput(stream)

SpecOutput == Init /\ [][NextOutput]_vars

\* The bytes that went into the pipe to the sink of channel ch: what arrived
\* on it (inherit), or what its output transform emitted (buffered).
PipedOn(ch) ==
  IF launch.outputMode = "inherit" THEN ArrivedOn(ch)
  ELSE Concat(SelectSeq(PushedChunks, LAMBDA c : c.src = ch))
\* A chunk reaching the sinks leaves the other channel's state and sink alone.
C23_Step ==
  (launch.hasPrefix /\ op'.name = "arrive" /\ launch.outputMode = "inherit")
    => LET other == Other(arrived'[Len(arrived')].src) IN
       needsPrefix'[other] = needsPrefix[other] /\ sink'[other] = sink[other]
\* C23: with a prefix configured, each channel's sink holds the bytes piped to
\* it with the prefix once before every line, and each channel owes a prefix
\* exactly when nothing was piped to it yet or its last byte ended a line,
\* whatever was piped on the other channel in between.
C23_PrefixStatePerChannel ==
  /\ [](launch.hasPrefix =>
          \A ch \in Channels :
            /\ sink[ch] = WithPrefixes(launch.outputPrefix, PipedOn(ch), TRUE)
            /\ needsPrefix[ch] = (PipedOn(ch) = <<>> \/ PipedOn(ch)[Len(PipedOn(ch))] = NL))
  /\ [][C23_Step]_vars
\* An unterminated line on stdout, a line on stderr, and more of the stdout
\* line: stderr has its own prefix and the stdout line has one.
C23_Witness ==
  /\ launch.hasPrefix /\ launch.outputMode = "inherit"
  /\ Len(arrived) = 3
  /\ arrived[1].src = Stdout /\ arrived[2].src = Stderr /\ arrived[3].src = Stdout
  /\ sink = << <<"P", "a", "a">>, <<"P", "b", NL>> >>

\* ----------------------------------------- spawn: several launches of one host
\* A launch right after spawn() returned: the child runs, the promise is
\* pending, killChild and interruptChild are registered on the host.
NewChild ==
  [state |-> "running", code |-> NoCode, signal |-> Null, handle |-> TRUE,
   hooks |-> {"exit", "SIGINT"}, outcome |-> "Running", sent |-> <<>>]

\* process.off("exit", killChild); process.off("SIGINT", interruptChild): the
\* listeners removed are the closures of launch k.
ReleaseHooksMut(cs, k) == [j \in DOMAIN cs |-> [cs[j] EXCEPT !.hooks = {}]]
ReleaseHooks(cs, k) == [cs EXCEPT ![k].hooks = Off(Off(@, "exit"), "SIGINT")]

\* The host emits `event`: every launch's listener for it runs once, is
\* removed, and signals its own child.
EmitToHooks(cs, event, signal, by) ==
  [j \in DOMAIN cs |->
     IF event \in cs[j].hooks
     THEN [cs[j] EXCEPT !.sent = SendSignal(cs[j].handle, @, signal, by),
                        !.hooks = Once(@, event)]
     ELSE cs[j]]

InitLaunches ==
  /\ inputs = <<>>
  /\ endOpt = TRUE
  /\ buffer = <<>>
  /\ outState = <<>>
  /\ inputEnded = <<>>
  /\ pushed = <<>>
  /\ SpawnIdle
  /\ arrived = <<>>
  /\ dropped = {}
  /\ op = NoOp
  /\ hist = Hist0
  /\ children = [k \in 1..NumLaunches |-> NewChild]

\* The exit listener of launch k.
LaunchExit(k, status) ==
  /\ host.alive
  /\ children[k].state = "running"
  /\ children' = ReleaseHooks(
                    [children EXCEPT ![k].state = "exited",
                                     ![k].code = status.code,
                                     ![k].signal = status.signal,
                                     ![k].handle = FALSE,
                                     ![k].outcome =
                                        IF @ = "Running"
                                        THEN Settle(status.code, status.signal).state
                                        ELSE @], k)
  /\ op' = Did("exit", ToString(k))
  /\ UNCHANGED <<mbtVars, spawnVars, arrived, dropped, hist>>

\* kill() on the promise of launch k.
LaunchKill(k, signal) ==
  /\ host.alive
  /\ \A i \in DOMAIN children[k].sent : children[k].sent[i].by # "kill"
  /\ children' = [children EXCEPT ![k].sent = SendSignal(children[k].handle, @, signal, "kill")]
  /\ op' = Did("kill", ToString(k))
  /\ UNCHANGED <<mbtVars, spawnVars, arrived, dropped, hist>>

\* The host receives SIGINT: every registered interruptChild runs.
HostSigintAll ==
  /\ host.alive
  /\ children' = EmitToHooks(children, "SIGINT", "SIGINT", "interruptChild")
  /\ op' = Did("hostSigint", Undefined)
  /\ UNCHANGED <<mbtVars, spawnVars, arrived, dropped, hist>>

\* The host exits: every registered killChild runs.
HostExitAll ==
  /\ host.alive
  /\ host' = [host EXCEPT !.alive = FALSE]
  /\ children' = EmitToHooks(children, "exit", Undefined, "killChild")
  /\ op' = Did("hostExit", Undefined)
  /\ UNCHANGED <<mbtVars, launch, proc, handle, needsPrefix, sink, hooks,
                 listeners, outcome, sent, arrived, dropped, hist>>

NextLaunches ==
  \/ \E k \in DOMAIN children, status \in ExitStatuses : LaunchExit(k, status)
  \/ \E k \in DOMAIN children, signal \in KillArgs : LaunchKill(k, signal)
  \/ HostSigintAll
  \/ HostExitAll

SpecLaunches == InitLaunches /\ [][NextLaunches]_vars

\* How often the hook `by` has signalled the child of launch k.
SentTo(k, by) ==
  Cardinality({ i \in DOMAIN children[k].sent : children[k].sent[i].by = by })
\* The exit of one child, and a host interrupt or exit, seen from each launch.
C24_Step ==
  \A k \in DOMAIN children :
    /\ (op'.name = "exit" /\ op'.arg = ToString(k))
         => /\ children'[k].hooks = {}
            /\ \A j \in DOMAIN children \ {k} : children'[j] = children[j]
    /\ op'.name = "hostSigint"
         => children'[k].sent =
              IF children[k].state = "running" /\ SentTo(k, "interruptChild") = 0
              THEN Append(children[k].sent, [signal |-> "SIGINT", by |-> "interruptChild"])
              ELSE children[k].sent
    /\ op'.name = "hostExit"
         => children'[k].sent =
              IF children[k].state = "running"
              THEN Append(children[k].sent, [signal |-> "SIGTERM", by |-> "killChild"])
              ELSE children[k].sent
\* C24: the exit of one child removes the hooks of its own launch and changes
\* nothing of another launch; a host interrupt (the first) or a host exit
\* signals every child that is still running, once, and no child whose exit
\* was notified.
C24_HooksPerLaunch ==
  /\ [][C24_Step]_vars
  /\ [](\A k \in DOMAIN children :
          SentTo(k, "interruptChild") <= 1 /\ SentTo(k, "killChild") <= 1)
\* Child 1 exited; the host then received SIGINT, which went to child 2 only.
C24_Witness ==
  /\ op.name = "hostSigint"
  /\ children[1].state = "exited" /\ children[1].sent = <<>>
  /\ children[2].state = "running"
  /\ children[2].sent = <<[signal |-> "SIGINT", by |-> "interruptChild"]>>

\* The arrival of a chunk of the child's output right after a
\* flushOutput("both") on the failure of a buffered launch.
C25_Step ==
  (launch.outputMode = "buffered"
     /\ op.name = "flushOutput" /\ op.arg = "both" /\ op'.name = "arrive")
    => LET c == arrived'[Len(arrived')] IN
       /\ \E i \in DOMAIN pushed' : pushed'[i].chunk = c
       /\ sink'[c.src] # sink[c.src]
\* C25 (as claimed): in buffered mode a chunk of the child's output that
\* arrives after the exit was notified and flushOutput("both") was called is
\* not lost: it is emitted and reaches its channel's sink.
C25_NoOutputLostAfterFlush == [][C25_Step]_vars

\* A flush with a selector that is a stream but none of the inputs.
C26_Step ==
  (op'.name = "flush" /\ op'.arg \notin Range(inputs) \cup {Undefined})
    => /\ pushed' = pushed
       /\ outState' = outState
       /\ buffer' = <<>>
       /\ DroppedIds("flush")' = DroppedIds("flush") \cup AllBuffered
\* C26: flush(S), S a stream that is none of the inputs, emits nothing on any
\* output and empties the buffer; the chunks it discards are never emitted
\* and never buffered again.
C26_UnknownSelectorDropsAll ==
  /\ [][C26_Step]_vars
  /\ [](DroppedIds("flush") \cap (PushedIds \cup AllBuffered) = {})
\* Chunks of both channels were buffered, all outputs open; a flush with a
\* foreign selector discarded them, and a later flush() emitted nothing.
C26_Witness ==
  /\ op.name = "flush" /\ op.arg = Undefined /\ hist.calls = 2
  /\ \A t \in DOMAIN outState : outState[t] = "open"
  /\ \E c, d \in Range(arrived) :
       c.src # d.src /\ {c.id, d.id} \subseteq DroppedIds("flush")
  /\ pushed = <<>> /\ buffer = <<>>

SpecFair == Spec /\ WF_vars(\E status \in ExitStatuses : ExitNotify(status))

====
